---- MODULE Spec2Model ----
(***************************************************************************)
(* Model of pyweb/ui/elements.py: the registration of declared properties  *)
(* on the tag classes, and the construction of an element wrapper          *)
(* (ElementBase, TextElementBase, grid).                                   *)
(*                                                                         *)
(* A Python dict (class __dict__, **kwargs, the style mapping) is an       *)
(* insertion-ordered mapping and is modelled as a sequence of entries with *)
(* distinct keys. The host document is modelled by the native element      *)
(* record and by the log `calls` of the host operations performed on it.   *)
(***************************************************************************)
EXTENDS Naturals, Sequences, FiniteSets

VARIABLES
    pc,          \* "call" before the constructor runs, "done" after it
    cls,         \* the name of the class that is instantiated
    cls_dict,    \* its __dict__, as the module body left it
    content, style, kwargs, layout, gap,   \* the constructor's arguments
    document,    \* the native elements created so far, in creation order
    wrapper,     \* the wrapper object: the handle of its native element
    calls        \* the host operations performed, in order

vars == <<pc, cls, cls_dict, content, style, kwargs, layout, gap,
          document, wrapper, calls>>

----------------------------------------------------------------------------
(* Bounds of the inputs.                                                   *)

MaxOptions == 2

MaxStyle == 1

MaxContentLen == 2

----------------------------------------------------------------------------
(* Generic helpers for ordered mappings.                                   *)

Range(s) == {s[i] : i \in 1..Len(s)}

Keys(m) == {m[i][1] : i \in 1..Len(m)}

Get(m, k) == LET i == CHOOSE j \in 1..Len(m) : m[j][1] = k IN m[i][2]

Put(f, k, v) == [x \in (DOMAIN f) \cup {k} |-> IF x = k THEN v ELSE f[x]]

----------------------------------------------------------------------------
(* The declarative tables.                                                 *)

GLOBAL_ATTRIBUTES ==
    << "accesskey", "autocapitalize", "autofocus", "draggable",
       "enterkeyhint", "hidden", "id", "lang", "nonce", "part", "popover",
       "slot", "spellcheck", "tabindex", "title", "translate",
       "virtualkeyboardpolicy", "className" >>

BaseClasses == {"br", "img", "input_"}

TextClasses == {"a", "button", "code", "div", "h1", "h2", "h3", "h4", "h5",
                "h6", "link", "p", "pre", "style", "script", "small",
                "strong"}

TagClasses == BaseClasses \cup TextClasses

Classes == TagClasses \cup {"grid"}

Tag(T) == CASE T = "input_" -> "input"
            [] T = "grid" -> "div"
            [] OTHER -> T

Specific(T) ==
    CASE T = "a" ->
           << "download", "href", "referrerpolicy", "rel", "target", "type" >>
      [] T = "button" ->
           << "autofocus", "disabled", "form", "formaction", "formenctype",
              "formmethod", "formnovalidate", "formtarget", "name", "type",
              "value" >>
      [] T = "img" ->
           << "alt", "crossorigin", "decoding", "fetchpriority", "height",
              "ismap", "loading", "referrerpolicy", "sizes", "src", "width" >>
      [] T = "input_" ->
           << "accept", "alt", "autofocus", "capture", "checked", "dirname",
              "disabled", "form", "formaction", "formenctype", "formmethod",
              "formnovalidate", "formtarget", "height", "list", "max",
              "maxlength", "min", "minlength", "multiple", "name", "pattern",
              "placeholder", "popovertarget", "popovertargetaction",
              "readonly", "required", "size", "src", "step", "type", "value",
              "width" >>
      [] T = "link" ->
           << "as", "crossorigin", "disabled", "fetchpriority", "href",
              "imagesizes", "imagesrcset", "integrity", "media", "rel",
              "referrerpolicy", "sizes", "title", "type" >>
      [] T = "style" ->
           << "blocking", "media", "nonce", "title" >>
      [] T = "script" ->
           << "blocking", "crossorigin", "defer", "fetchpriority",
              "integrity", "nomodule", "nonce", "referrerpolicy", "src",
              "type" >>
      [] OTHER -> << >>

(* js_property(name): a JSProperty descriptor bound to the attribute name. *)
js_property(attr) == [kind |-> "JSProperty", attr |-> attr]

(* The class body: the entries of the class __dict__ before registration.  *)
ClassBody(T) ==
    LET tag == << <<"tag", [kind |-> "str", attr |-> Tag(T)]>> >>
    IN CASE T = "script" -> tag \o << <<"async_", js_property("async")>> >>
         [] T = "grid" ->
              tag \o << <<"__init__", [kind |-> "function", attr |-> ""]>> >>
         [] OTHER -> tag

(* setattr(cls, name, value) on a name the class __dict__ already has: the *)
(* entry keeps its position and gets the new value.                        *)
dict_replace(d, name, value) ==
    [i \in 1..Len(d) |-> IF d[i][1] = name THEN <<name, value>> ELSE d[i]]

(* The loop `for attr in attrs: setattr(cls, attr, js_property(attr))`,    *)
(* from its i-th iteration on; a new name is added at the end of __dict__. *)
RECURSIVE add_each(_, _, _)
add_each(d, attrs, i) ==
    IF i > Len(attrs) THEN d
    ELSE IF attrs[i] \in Keys(d)
         THEN add_each(dict_replace(d, attrs[i], js_property(attrs[i])),
                       attrs, i + 1)
         ELSE add_each(Append(d, <<attrs[i], js_property(attrs[i])>>),
                       attrs, i + 1)

(* Variant: the loop over GLOBAL_ATTRIBUTES is left out.                   *)
add_js_properties_no_globals(d, attrs) == add_each(d, attrs, 1)

add_js_properties(d, attrs) ==
    add_each(add_each(d, GLOBAL_ATTRIBUTES, 1), attrs, 1)

(* The module body: every tag class is registered once; grid is not.       *)
ClassDict(T) ==
    IF T \in TagClasses THEN add_js_properties(ClassBody(T), Specific(T))
    ELSE ClassBody(T)

----------------------------------------------------------------------------
(* Input universes. An option or style mapping is a sequence of distinct-  *)
(* key <<key, value>> pairs; content is tagged by what isinstance / `is    *)
(* None` tell about it.                                                    *)

OptionPairs ==
    { <<"id", "x">>, <<"autofocus", "true">>, <<"type", "y">>,
      <<"async_", "z">>, <<"unrecognized", "value">> }

StylePairs ==
    { <<"color", "red">>, <<"display", "block">>, <<"gap", "5px">> }

Children == {"childA", "childB"}

Strings == {"", "hello"}

Layouts == {"1fr 1fr", "auto"}

(* An optional argument: << >> is None, <<v>> is the value v.              *)
Gaps == { << >>, <<"10px">> }

RECURSIVE MappingsUpTo(_, _)
MappingsUpTo(pairs, n) ==
    IF n = 0 THEN { << >> }
    ELSE LET prev == MappingsUpTo(pairs, n - 1)
         IN prev \cup { Append(m, p) : m \in prev, p \in pairs }

DistinctKeys(m) == \A i, j \in 1..Len(m) : m[i][1] = m[j][1] => i = j

KwargsInputs == {m \in MappingsUpTo(OptionPairs, MaxOptions) : DistinctKeys(m)}

StyleInputs == {m \in MappingsUpTo(StylePairs, MaxStyle) : DistinctKeys(m)}

RECURSIVE ListsUpTo(_)
ListsUpTo(n) ==
    IF n = 0 THEN { << >> }
    ELSE LET prev == ListsUpTo(n - 1)
         IN prev \cup { Append(l, c) : l \in prev, c \in Children }

NoneContent == [kind |-> "None", items |-> << >>, text |-> ""]

ContentInputs ==
    {NoneContent}
    \cup {[kind |-> "Element", items |-> <<c>>, text |-> ""] : c \in Children}
    \cup {[kind |-> "list", items |-> l, text |-> ""] :
             l \in ListsUpTo(MaxContentLen)}
    \cup {[kind |-> "str", items |-> << >>, text |-> t] : t \in Strings}

----------------------------------------------------------------------------
(* The host: the document, its native elements and the operations the      *)
(* module performs on them. `w` is the world during one constructor call:  *)
(* the document (native elements in creation order, a handle is an index), *)
(* the wrapper under construction and the log of host calls.               *)

EmptyMap == [x \in {} |-> ""]

NoWrapper == [js |-> 0]

NewNative(tag) ==
    [tag |-> tag, style |-> EmptyMap, attrs |-> EmptyMap,
     children |-> << >>, html |-> << >>]

Call(op, target, key, value) ==
    [op |-> op, target |-> target, key |-> key, value |-> value]

World0 == [document |-> << >>, self |-> NoWrapper, calls |-> << >>]

(* document.createElement(tag); the new handle is Len(document).           *)
createElement(w, tag) ==
    [w EXCEPT !.document = Append(@, NewNative(tag)),
              !.calls = Append(@, Call("createElement", Len(w.document) + 1,
                                       tag, ""))]

(* pydom.Element.__init__(js_element): the wrapper keeps the handle.       *)
Element__init__(w, h) == [w EXCEPT !.self = [js |-> h]]

(* self.style[key] = value                                                 *)
style__setitem__(w, key, value) ==
    [w EXCEPT !.document[w.self.js].style = Put(@, key, value),
              !.calls = Append(@, Call("style", w.self.js, key, value))]

(* JSProperty.__set__: write the backing attribute of the native element.  *)
JSProperty__set__(w, attr, value) ==
    [w EXCEPT !.document[w.self.js].attrs = Put(@, attr, value),
              !.calls = Append(@, Call("setAttribute", w.self.js, attr, value))]

(* self.append(child)                                                      *)
append(w, child) ==
    [w EXCEPT !.document[w.self.js].children = Append(@, child),
              !.calls = Append(@, Call("append", w.self.js, child, ""))]

(* self.html = value                                                       *)
html__set__(w, value) ==
    [w EXCEPT !.document[w.self.js].html = <<value>>,
              !.calls = Append(@, Call("html", w.self.js, "", value))]

----------------------------------------------------------------------------
(* The constructors. `d` is the __dict__ of the concrete class.            *)

RECURSIVE set_styles(_, _, _)
set_styles(w, st, i) ==
    IF i > Len(st) THEN w
    ELSE set_styles(style__setitem__(w, st[i][1], st[i][2]), st, i + 1)

RECURSIVE init_properties_from(_, _, _, _)
init_properties_from(w, d, kw, i) ==
    IF i > Len(d) THEN w
    ELSE LET attr_name == d[i][1]
             attr == d[i][2]
         IN IF attr.kind = "JSProperty" /\ attr_name \in Keys(kw)
            THEN init_properties_from(
                     JSProperty__set__(w, attr.attr, Get(kw, attr_name)),
                     d, kw, i + 1)
            ELSE init_properties_from(w, d, kw, i + 1)

(* Variant: the setter writes the attribute named like the property.      *)
RECURSIVE init_properties_by_name_from(_, _, _, _)
init_properties_by_name_from(w, d, kw, i) ==
    IF i > Len(d) THEN w
    ELSE LET attr_name == d[i][1]
             attr == d[i][2]
         IN IF attr.kind = "JSProperty" /\ attr_name \in Keys(kw)
            THEN init_properties_by_name_from(
                     JSProperty__set__(w, attr_name, Get(kw, attr_name)),
                     d, kw, i + 1)
            ELSE init_properties_by_name_from(w, d, kw, i + 1)

init_properties_by_name(w, d, kw) == init_properties_by_name_from(w, d, kw, 1)

(* Variant: every keyword argument is set, declared or not.                *)
RECURSIVE init_properties_all_from(_, _, _)
init_properties_all_from(w, kw, i) ==
    IF i > Len(kw) THEN w
    ELSE init_properties_all_from(JSProperty__set__(w, kw[i][1], kw[i][2]),
                                  kw, i + 1)

init_properties_all(w, d, kw) == init_properties_all_from(w, kw, 1)

(* Variant: the loop runs over kwargs and looks each key up in __dict__.   *)
RECURSIVE init_properties_kwargs_order_from(_, _, _, _)
init_properties_kwargs_order_from(w, d, kw, i) ==
    IF i > Len(kw) THEN w
    ELSE IF kw[i][1] \in Keys(d) /\ Get(d, kw[i][1]).kind = "JSProperty"
         THEN init_properties_kwargs_order_from(
                  JSProperty__set__(w, Get(d, kw[i][1]).attr, kw[i][2]),
                  d, kw, i + 1)
         ELSE init_properties_kwargs_order_from(w, d, kw, i + 1)

init_properties_kwargs_order(w, d, kw) ==
    init_properties_kwargs_order_from(w, d, kw, 1)

init_properties(w, d, kw) == init_properties_from(w, d, kw, 1)

(* Variant: the properties are assigned before the style.                  *)
ElementBase__init__props_first(w, d, st, kw) ==
    LET w0 == createElement(w, Get(d, "tag").attr)
        w1 == Element__init__(w0, Len(w0.document))
        w2 == init_properties(w1, d, kw)
    IN set_styles(w2, st, 1)

ElementBase__init__(w, d, st, kw) ==
    LET w0 == createElement(w, Get(d, "tag").attr)
        w1 == Element__init__(w0, Len(w0.document))
        w2 == set_styles(w1, st, 1)
    IN init_properties(w2, d, kw)

(* Variant: the items are appended last to first.                          *)
RECURSIVE append_items_reversed(_, _, _)
append_items_reversed(w, items, i) ==
    IF i > Len(items) THEN w
    ELSE append_items_reversed(append(w, items[Len(items) + 1 - i]), items,
                               i + 1)

RECURSIVE append_items(_, _, _)
append_items(w, items, i) ==
    IF i > Len(items) THEN w
    ELSE append_items(append(w, items[i]), items, i + 1)

(* Variant: `elif not content` in place of `elif content is None`.         *)
TextElementBase__init__falsy(w, d, c, st, kw) ==
    LET w1 == ElementBase__init__(w, d, st, kw)
    IN CASE c.kind = "Element" -> append(w1, c.items[1])
         [] c.kind = "list" -> append_items(w1, c.items, 1)
         [] c.kind = "None" \/ (c.kind = "str" /\ c.text = "") -> w1
         [] OTHER -> html__set__(w1, c.text)

TextElementBase__init__(w, d, c, st, kw) ==
    LET w1 == ElementBase__init__(w, d, st, kw)
    IN CASE c.kind = "Element" -> append(w1, c.items[1])
         [] c.kind = "list" -> append_items(w1, c.items, 1)
         [] c.kind = "None" -> w1
         [] OTHER -> html__set__(w1, c.text)

(* Variant: the style option is applied after the grid's own style.        *)
grid__init__style_last(w, d, lay, c, g, st, kw) ==
    LET w1 == TextElementBase__init__(w, d, c, << >>, kw)
        w2 == style__setitem__(w1, "display", "grid")
        w3 == style__setitem__(w2, "grid-template-columns", lay)
        w4 == IF g # << >> THEN style__setitem__(w3, "gap", g[1]) ELSE w3
    IN set_styles(w4, st, 1)

(* Variant: the gap argument is dropped.                                   *)
grid__init__no_gap(w, d, lay, c, g, st, kw) ==
    LET w1 == TextElementBase__init__(w, d, c, st, kw)
        w2 == style__setitem__(w1, "display", "grid")
    IN style__setitem__(w2, "grid-template-columns", lay)

grid__init__(w, d, lay, c, g, st, kw) ==
    LET w1 == TextElementBase__init__(w, d, c, st, kw)
        w2 == style__setitem__(w1, "display", "grid")
        w3 == style__setitem__(w2, "grid-template-columns", lay)
    IN IF g # << >> THEN style__setitem__(w3, "gap", g[1]) ELSE w3

----------------------------------------------------------------------------
(* The state machine: the module is loaded (the class is registered), the  *)
(* application calls one constructor with the arguments drawn in Init.     *)

Init ==
    /\ pc = "call"
    /\ cls \in Classes
    /\ cls_dict = ClassDict(cls)
    /\ kwargs \in KwargsInputs
    /\ style \in StyleInputs
    /\ content \in (IF cls \in BaseClasses THEN {NoneContent} ELSE ContentInputs)
    /\ layout \in (IF cls = "grid" THEN Layouts ELSE {""})
    /\ gap \in (IF cls = "grid" THEN Gaps ELSE { << >> })
    /\ document = << >>
    /\ wrapper = NoWrapper
    /\ calls = << >>

Return(w) ==
    /\ document' = w.document
    /\ wrapper' = w.self
    /\ calls' = w.calls
    /\ pc' = "done"
    /\ UNCHANGED <<cls, cls_dict, content, style, kwargs, layout, gap>>

NewElement ==
    /\ pc = "call"
    /\ cls \in BaseClasses
    /\ Return(ElementBase__init__(World0, cls_dict, style, kwargs))

NewTextElement ==
    /\ pc = "call"
    /\ cls \in TextClasses
    /\ Return(TextElementBase__init__(World0, cls_dict, content, style,
                                      kwargs))

NewGrid ==
    /\ pc = "call"
    /\ cls = "grid"
    /\ Return(grid__init__(World0, cls_dict, layout, content, gap, style,
                           kwargs))

Next == NewElement \/ NewTextElement \/ NewGrid

Spec == Init /\ [][Next]_vars

----------------------------------------------------------------------------
(* Vocabulary of the properties.                                           *)

Done == pc = "done"

(* The native element the wrapper owns.                                    *)
Native == document[wrapper.js]

(* The declared properties of the class: its JSProperty entries.           *)
DeclaredAt(d) == {i \in 1..Len(d) : d[i][2].kind = "JSProperty"}

DeclaredNames(d) == {d[i][1] : i \in DeclaredAt(d)}

Backing(d, name) == Get(d, name).attr

HasAttr(el, a, v) == a \in DOMAIN el.attrs /\ el.attrs[a] = v

HasStyle(el, k, v) == k \in DOMAIN el.style /\ el.style[k] = v

IsSetAttribute(c) == c.op = "setAttribute"

IsAppend(c) == c.op = "append"

CallKeys(cs) == [i \in 1..Len(cs) |-> cs[i].key]

(* The setters invoked, in order, by backing attribute.                    *)
SettersInvoked == CallKeys(SelectSeq(calls, IsSetAttribute))

(* The children appended, in order.                                        *)
Appended == CallKeys(SelectSeq(calls, IsAppend))

(* The world a constructor call of the class leaves, given the options kw. *)
Construct(kw) ==
    CASE cls \in BaseClasses ->
           ElementBase__init__(World0, cls_dict, style, kw)
      [] cls \in TextClasses ->
           TextElementBase__init__(World0, cls_dict, content, style, kw)
      [] OTHER ->
           grid__init__(World0, cls_dict, layout, content, gap, style, kw)

Without(kw, k) == SelectSeq(kw, LAMBDA p : p[1] # k)

----------------------------------------------------------------------------
(* C1: after the construction of a tag class, every option that names a    *)
(* declared property reads back from its backing attribute, every entry of *)
(* the style option is in the inline style, and the tag is the class's.    *)
C1_OptionsAndStyleApplied ==
    (Done /\ cls \in TagClasses) =>
        /\ Native.tag = Tag(cls)
        /\ \A i \in 1..Len(kwargs) :
              kwargs[i][1] \in DeclaredNames(cls_dict) =>
                  HasAttr(Native, Backing(cls_dict, kwargs[i][1]), kwargs[i][2])
        /\ \A i \in 1..Len(style) : HasStyle(Native, style[i][1], style[i][2])

C1_Witness ==
    /\ Done /\ cls = "div"
    /\ kwargs = << <<"id", "x">> >>
    /\ style = << <<"color", "red">> >>
    /\ Native.tag = "div"
    /\ HasAttr(Native, "id", "x")
    /\ HasStyle(Native, "color", "red")

(* C2 as stated: the declared properties of a tag class are exactly        *)
(* GLOBAL_ATTRIBUTES union its specific attributes, one declaration each,  *)
(* each backed by its own name except script's async_, backed by "async".  *)
NamedOnce(d) == Cardinality(DeclaredNames(d)) = Cardinality(DeclaredAt(d))

BackedByOwnName(d) ==
    \A i \in DeclaredAt(d) :
        \/ d[i][2].attr = d[i][1]
        \/ cls = "script" /\ d[i][1] = "async_" /\ d[i][2].attr = "async"

C2_DeclaredIsGlobalUnionSpecific ==
    cls \in TagClasses =>
        /\ DeclaredNames(cls_dict) =
               Range(GLOBAL_ATTRIBUTES) \cup Range(Specific(cls))
        /\ NamedOnce(cls_dict)
        /\ BackedByOwnName(cls_dict)

(* C2 amended: script also declares async_, which its class body adds and  *)
(* which is no registered attribute.                                       *)
C2_DeclaredIsGlobalUnionSpecificPlusAlias ==
    cls \in TagClasses =>
        /\ DeclaredNames(cls_dict) =
               Range(GLOBAL_ATTRIBUTES) \cup Range(Specific(cls))
               \cup (IF cls = "script" THEN {"async_"} ELSE {})
        /\ NamedOnce(cls_dict)
        /\ BackedByOwnName(cls_dict)

C2_Witness ==
    /\ Done /\ cls = "button"
    /\ "autofocus" \in Keys(kwargs)
    /\ Cardinality({i \in DeclaredAt(cls_dict) : cls_dict[i][1] = "autofocus"}) = 1
    /\ HasAttr(Native, "autofocus", "true")

(* C3: an option that is no declared property is ignored: the construction *)
(* completes, every setAttribute comes from a declared option, no other    *)
(* attribute exists, and the result is that of the call without the option.*)
C3_UndeclaredOptionsIgnored ==
    Done =>
        LET declared == DeclaredNames(cls_dict)
        IN /\ \A n \in 1..Len(calls) :
                 calls[n].op = "setAttribute" =>
                     \E i \in 1..Len(kwargs) :
                         /\ kwargs[i][1] \in declared
                         /\ calls[n].key = Backing(cls_dict, kwargs[i][1])
                         /\ calls[n].value = kwargs[i][2]
           /\ DOMAIN Native.attrs =
                  {Backing(cls_dict, k) : k \in Keys(kwargs) \cap declared}
           /\ \A k \in Keys(kwargs) \ declared :
                 LET w == Construct(Without(kwargs, k))
                 IN document = w.document /\ wrapper = w.self /\ calls = w.calls

C3_Witness ==
    /\ Done /\ cls = "div"
    /\ kwargs = << <<"unrecognized", "value">> >>
    /\ DOMAIN Native.attrs = {}
    /\ \A n \in 1..Len(calls) : calls[n].op # "setAttribute"

(* C4: a text element's construction performs the one content action its   *)
(* content selects: an element is the sole child, a list's items are the   *)
(* children, None does nothing, anything else becomes the html.            *)
C4_OneContentAction ==
    (Done /\ cls \notin BaseClasses) =>
        CASE content.kind = "Element" ->
               Native.children = <<content.items[1]>> /\ Native.html = << >>
          [] content.kind = "list" ->
               Native.children = content.items /\ Native.html = << >>
          [] content.kind = "None" ->
               Native.children = << >> /\ Native.html = << >>
          [] OTHER ->
               Native.children = << >> /\ Native.html = <<content.text>>

C4_Witness ==
    /\ Done /\ cls = "p"
    /\ content = [kind |-> "str", items |-> << >>, text |-> "hello"]
    /\ Native.html = <<"hello">>
    /\ Native.children = << >>

(* C5: for element or list content the append calls are exactly the items, *)
(* in sequence order, and the html is never assigned.                      *)
C5_AppendsInSequenceOrder ==
    (Done /\ content.kind \in {"Element", "list"}) =>
        /\ Appended = content.items
        /\ \A n \in 1..Len(calls) : calls[n].op # "html"

C5_Witness ==
    /\ Done /\ cls = "div"
    /\ content = [kind |-> "list", items |-> <<"childA", "childB">>, text |-> ""]
    /\ Appended = <<"childA", "childB">>

(* C6: a grid always ends with display "grid" and grid-template-columns    *)
(* equal to layout, whatever the style option says.                        *)
C6_GridStyleWins ==
    (Done /\ cls = "grid") =>
        /\ HasStyle(Native, "display", "grid")
        /\ HasStyle(Native, "grid-template-columns", layout)

C6_Witness ==
    /\ Done /\ cls = "grid"
    /\ <<"display", "block">> \in Range(style)
    /\ HasStyle(Native, "display", "grid")
    /\ HasStyle(Native, "grid-template-columns", layout)

(* C7 as stated: a given gap is the gap style, and without the gap         *)
(* argument the constructed grid has no gap style.                         *)
C7_GapUnsetWhenOmitted ==
    (Done /\ cls = "grid") =>
        /\ gap # << >> => HasStyle(Native, "gap", gap[1])
        /\ gap = << >> => "gap" \notin DOMAIN Native.style

(* C7 amended: without the gap argument the gap style is what the style    *)
(* option made it: unset unless the style option has a gap entry.          *)
C7_GapFromArgumentElseFromStyle ==
    (Done /\ cls = "grid") =>
        /\ gap # << >> => HasStyle(Native, "gap", gap[1])
        /\ gap = << >> =>
              IF "gap" \in Keys(style)
              THEN HasStyle(Native, "gap", Get(style, "gap"))
              ELSE "gap" \notin DOMAIN Native.style

C7_Witness ==
    /\ Done /\ cls = "grid"
    /\ layout = "1fr 1fr" /\ content = NoneContent /\ gap = <<"10px">>
    /\ HasStyle(Native, "gap", "10px")

(* C8 as stated: a grid option that names a global attribute reads back    *)
(* from the native element, as it does for div.                            *)
C8_GridAppliesGlobalAttributes ==
    (Done /\ cls = "grid") =>
        \A i \in 1..Len(kwargs) :
            kwargs[i][1] \in Range(GLOBAL_ATTRIBUTES) =>
                HasAttr(Native, kwargs[i][1], kwargs[i][2])

(* C9: one createElement, first and with the class's tag; then the style   *)
(* option, then the declared properties, then the content action, then the *)
(* grid's own style; every call is on the wrapper's one native element.    *)
GridWrites == IF cls = "grid" THEN (IF gap = << >> THEN 2 ELSE 3) ELSE 0

Phase(n) ==
    CASE calls[n].op = "createElement" -> 0
      [] calls[n].op = "style" -> IF n <= 1 + Len(style) THEN 1 ELSE 4
      [] calls[n].op = "setAttribute" -> 2
      [] OTHER -> 3

C9_ConstructionOrder ==
    Done =>
        /\ Len(document) = 1 /\ wrapper.js = 1
        /\ Len(calls) >= 1 + Len(style) + GridWrites
        /\ calls[1] = Call("createElement", 1, Tag(cls), "")
        /\ \A n \in 2..Len(calls) :
              calls[n].op # "createElement" /\ calls[n].target = wrapper.js
        /\ \A n \in 1..Len(style) :
              calls[1 + n] = Call("style", 1, style[n][1], style[n][2])
        /\ \A n \in 1..(Len(calls) - 1) : Phase(n) <= Phase(n + 1)
        /\ Cardinality({n \in 1..Len(calls) : Phase(n) = 4}) = GridWrites

C9_Witness ==
    /\ Done /\ cls = "a"
    /\ style = << <<"color", "red">> >>
    /\ kwargs = << <<"type", "y">> >>
    /\ content.kind = "str" /\ content.text = "hello"
    /\ CallKeys(calls) = <<"a", "color", "type", "">>

(* C10 as stated: the setters of the declared options run once each, in    *)
(* GLOBAL_ATTRIBUTES order and then the specific attributes' registration  *)
(* order (script's async_ among the specific ones), whatever the order of  *)
(* the options.                                                            *)
NotGlobal(a) == a \notin Range(GLOBAL_ATTRIBUTES)

InOptions(a) == a \in Keys(kwargs)

BackingOf(a) == IF a = "async_" THEN "async" ELSE a

ExpectedSetters(order) ==
    LET named == SelectSeq(order, InOptions)
    IN [i \in 1..Len(named) |-> BackingOf(named[i])]

C10_SettersInGlobalThenSpecificOrder ==
    (Done /\ cls \in TagClasses) =>
        SettersInvoked =
            ExpectedSetters(GLOBAL_ATTRIBUTES
                            \o (IF cls = "script" THEN <<"async_">> ELSE << >>)
                            \o SelectSeq(Specific(cls), NotGlobal))

(* C10 amended: the order is that of the class __dict__: what the class    *)
(* body declares (script's async_) first, then GLOBAL_ATTRIBUTES, then the *)
(* specific attributes that are not global, in registration order.         *)
C10_SettersInDeclarationOrder ==
    (Done /\ cls \in TagClasses) =>
        SettersInvoked =
            ExpectedSetters((IF cls = "script" THEN <<"async_">> ELSE << >>)
                            \o GLOBAL_ATTRIBUTES
                            \o SelectSeq(Specific(cls), NotGlobal))

C10_Witness ==
    /\ Done /\ cls = "button"
    /\ kwargs = << <<"type", "y">>, <<"autofocus", "true">> >>
    /\ SettersInvoked = <<"autofocus", "type">>

====
